---- MODULE Spec2Model ----
(***************************************************************************)
(* StrSplit<'haystack, D>: the lazy, zero-copy string splitter of          *)
(* "Jon Gjengset/Crust of Rust/Lifetime Annotations/Code/v1.rs".           *)
(*                                                                         *)
(* A &str is modelled as what it is: a (pointer, length) view into a       *)
(* buffer of UTF-8 bytes.  The buffer is the variable haystack (a sequence *)
(* of byte values 0..255); a view is a record [tag, off, len] whose text   *)
(* is the bytes off+1 .. off+len of the buffer.  Option<&str> adds the     *)
(* tag "None".  Offsets are byte offsets, as in the source.                *)
(***************************************************************************)
EXTENDS Integers, Sequences, FiniteSets, TLC

\* ------------------------------------------------------------------ bounds
\* longest bounded source text, in code points
MaxLen == 3
\* longest bounded literal delimiter, in code points
MaxDelimLen == 2
\* longest source text split with a caller-supplied matcher, in code points
MaxCustomLen == 2
\* items collected from one splitter before the driver stops calling next
MaxItems == 5
\* longest source text shared by two splitters, in code points
MaxLenTwo == 2
\* longest literal delimiter of either of two splitters, in code points
MaxDelimLenTwo == 1

\* The code points the bounded texts are built from: ' ', 'a' and the
\* two-byte 'e-acute' (U+00E9, bytes C3 A9).
Chars == {32, 97, 233}

\* ------------------------------------------------------- UTF-8 and &str
\* char::len_utf8
len_utf8(c) ==
  IF c < 128 THEN 1 ELSE IF c < 2048 THEN 2 ELSE IF c < 65536 THEN 3 ELSE 4

\* The UTF-8 bytes of one code point, as a string literal stores them.
encode_utf8(c) ==
  CASE len_utf8(c) = 1 -> <<c>>
    [] len_utf8(c) = 2 -> <<192 + (c \div 64), 128 + (c % 64)>>
    [] len_utf8(c) = 3 -> <<224 + (c \div 4096), 128 + ((c \div 64) % 64),
                            128 + (c % 64)>>
    [] OTHER -> <<240 + (c \div 262144), 128 + ((c \div 4096) % 64),
                  128 + ((c \div 64) % 64), 128 + (c % 64)>>

\* The bytes of a string literal given as a sequence of code points.
RECURSIVE StrLit(_)
StrLit(cs) ==
  IF cs = <<>> THEN <<>> ELSE encode_utf8(Head(cs)) \o StrLit(Tail(cs))

\* Width of the encoded code point that starts with lead byte b.
utf8_char_width(b) ==
  IF b < 128 THEN 1 ELSE IF b < 224 THEN 2 ELSE IF b < 240 THEN 3 ELSE 4

\* The code point encoded in s at byte offset i (0-based), w bytes wide.
decode_utf8(s, i, w) ==
  CASE w = 1 -> s[i + 1]
    [] w = 2 -> (s[i + 1] - 192) * 64 + (s[i + 2] - 128)
    [] w = 3 -> (s[i + 1] - 224) * 4096 + (s[i + 2] - 128) * 64
                + (s[i + 3] - 128)
    [] OTHER -> (s[i + 1] - 240) * 262144 + (s[i + 2] - 128) * 4096
                + (s[i + 3] - 128) * 64 + (s[i + 4] - 128)

\* str::char_indices from byte offset i on: the sequence of
\* (byte index, char) pairs, one per code point.
RECURSIVE char_indices_from(_, _)
char_indices_from(s, i) ==
  IF i >= Len(s) THEN <<>>
  ELSE LET w == utf8_char_width(s[i + 1])
       IN  <<[idx |-> i, ch |-> decode_utf8(s, i, w)]>>
             \o char_indices_from(s, i + w)

char_indices(s) == char_indices_from(s, 0)

\* str::is_char_boundary: offset i of s does not fall inside an encoding.
is_char_boundary(s, i) ==
  \/ i = 0
  \/ i = Len(s)
  \/ /\ 0 < i
     /\ i < Len(s)
     /\ ~(s[i + 1] >= 128 /\ s[i + 1] < 192)

\* Option values.  A view [tag |-> "Some", off, len] is a &str into buf.
NoneStr == [tag |-> "None", off |-> 0, len |-> 0]
SomeStr(off, len) == [tag |-> "Some", off |-> off, len |-> len]
Panic == [tag |-> "Panic", off |-> 0, len |-> 0]
Unset == [tag |-> "Unset", off |-> 0, len |-> 0]

NoneSpan == [tag |-> "None", start |-> 0, end |-> 0]
SomeSpan(start, end) == [tag |-> "Some", start |-> start, end |-> end]
NoCall == [tag |-> "NoCall", start |-> 0, end |-> 0]

\* The bytes a view denotes.
Str(buf, v) == SubSeq(buf, v.off + 1, v.off + v.len)

\* &v[a..b]: the sub-view, or a panic when the range is out of order, out
\* of bounds or not on code-point boundaries.
slice(buf, v, a, b) ==
  IF /\ 0 <= a
     /\ a <= b
     /\ b <= v.len
     /\ is_char_boundary(Str(buf, v), a)
     /\ is_char_boundary(Str(buf, v), b)
  THEN SomeStr(v.off + a, b - a)
  ELSE Panic

SetMin(S) == CHOOSE x \in S : \A y \in S : x <= y

\* ---------------------------------------------------------- delimiters
\* The D of StrSplit<'haystack, D>: a &str, a char, or a caller's type.
\* A caller's type is modelled by its find_next: find_next takes &self and
\* the view, so it is a table from the view's text to the answer.
StrDelim(bytes) == [kind |-> "str", bytes |-> bytes, c |-> 0, table |-> <<>>]
CharDelim(c) == [kind |-> "char", bytes |-> <<>>, c |-> c, table |-> <<>>]
CustomDelim(table) ==
  [kind |-> "custom", bytes |-> <<>>, c |-> 0, table |-> table]

\* A plausible slip in the search: offset 0 is never tried.
str_find_skips_first(s, pat) ==
  LET hits == {i \in 1..(Len(s) - Len(pat)) :
                 SubSeq(s, i + 1, i + Len(pat)) = pat}
  IN  IF hits = {} THEN [tag |-> "None", at |-> 0]
      ELSE [tag |-> "Some", at |-> SetMin(hits)]

\* str::find with a &str pattern: the smallest byte offset where pat
\* occurs in s (0 for the empty pattern).
str_find(s, pat) ==
  LET hits == {i \in 0..(Len(s) - Len(pat)) :
                 SubSeq(s, i + 1, i + Len(pat)) = pat}
  IN  IF hits = {} THEN [tag |-> "None", at |-> 0]
      ELSE [tag |-> "Some", at |-> SetMin(hits)]

\* A plausible slip in the literal matcher: the delimiter's length is
\* counted in code points (self.chars().count() for self.len()).
find_next_str_char_count(self, s) ==
  LET r == str_find(s, self)
  IN  IF r.tag = "Some" THEN SomeSpan(r.at, r.at + Len(char_indices(self)))
      ELSE NoneSpan

\* impl Delimiter for &str
find_next_str(self, s) ==
  LET r == str_find(s, self)
  IN  IF r.tag = "Some" THEN SomeSpan(r.at, r.at + Len(self)) ELSE NoneSpan

\* A plausible slip in the char matcher: the index of the code point is
\* taken for its byte offset (chars().position() for char_indices()).
find_next_char_by_position(self, s) ==
  LET ci == char_indices(s)
      hits == {k \in 1..Len(ci) : ci[k].ch = self}
  IN  IF hits = {} THEN NoneSpan
      ELSE LET start == SetMin(hits) - 1
           IN  SomeSpan(start, start + len_utf8(self))

\* A plausible slip in the char matcher: the delimiter is taken to be one
\* byte long (start + 1 for start + self.len_utf8()).
find_next_char_one_byte(self, s) ==
  LET ci == char_indices(s)
      hits == {k \in 1..Len(ci) : ci[k].ch = self}
  IN  IF hits = {} THEN NoneSpan
      ELSE LET start == ci[SetMin(hits)].idx
           IN  SomeSpan(start, start + 1)

\* impl Delimiter for char
find_next_char(self, s) ==
  LET ci == char_indices(s)
      hits == {k \in 1..Len(ci) : ci[k].ch = self}
  IN  IF hits = {} THEN NoneSpan
      ELSE LET start == ci[SetMin(hits)].idx
           IN  SomeSpan(start, start + len_utf8(self))

\* Delimiter::find_next, dispatched on the type D.
find_next(self, s) ==
  CASE self.kind = "str" -> find_next_str(self.bytes, s)
    [] self.kind = "char" -> find_next_char(self.c, s)
    [] OTHER -> self.table[s]

\* ------------------------------------------------------------ StrSplit
\* A plausible slip in new: an empty haystack starts already exhausted.
new_skips_empty(haystack, delimiter) ==
  [remainder |-> IF haystack = <<>> THEN NoneStr
                 ELSE SomeStr(0, Len(haystack)),
   delimiter |-> delimiter]

\* StrSplit::new
new(haystack, delimiter) ==
  [remainder |-> SomeStr(0, Len(haystack)), delimiter |-> delimiter]

\* A plausible slip in next: an exhausted splitter yields an empty item.
next_on_none_yields(self, buf) ==
  [self |-> self, ret |-> SomeStr(Len(buf), 0), found |-> NoCall]

\* next, line 42: `self.remainder.as_mut()?` when remainder is None.
next_on_none(self, buf) ==
  [self |-> self, ret |-> NoneStr, found |-> NoCall]

\* A plausible slip in next: the new remainder starts at delim_start, so the
\* matched delimiter stays in the view.
next_on_match_keeps_delim(self, buf, m) ==
  LET remainder == self.remainder
      until_delimiter == slice(buf, remainder, 0, m.start)
      rest == slice(buf, remainder, m.start, remainder.len)
  IN  IF until_delimiter.tag = "Panic" \/ rest.tag = "Panic"
      THEN [self |-> self, ret |-> Panic, found |-> m]
      ELSE [self |-> [self EXCEPT !.remainder = rest],
            ret |-> until_delimiter, found |-> m]

\* A plausible slip in next: the item runs to delim_end, so it includes the
\* matched delimiter.
next_on_match_item_to_end(self, buf, m) ==
  LET remainder == self.remainder
      until_delimiter == slice(buf, remainder, 0, m.end)
      rest == slice(buf, remainder, m.end, remainder.len)
  IN  IF until_delimiter.tag = "Panic" \/ rest.tag = "Panic"
      THEN [self |-> self, ret |-> Panic, found |-> m]
      ELSE [self |-> [self EXCEPT !.remainder = rest],
            ret |-> until_delimiter, found |-> m]

\* next, lines 44-46: find_next answered Some((delim_start, delim_end)) = m.
\* A slice that panics unwinds before the assignment to *remainder.
next_on_match(self, buf, m) ==
  LET remainder == self.remainder
      until_delimiter == slice(buf, remainder, 0, m.start)
      rest == slice(buf, remainder, m.end, remainder.len)
  IN  IF until_delimiter.tag = "Panic" \/ rest.tag = "Panic"
      THEN [self |-> self, ret |-> Panic, found |-> m]
      ELSE [self |-> [self EXCEPT !.remainder = rest],
            ret |-> until_delimiter, found |-> m]

\* A plausible slip in next: the remainder is returned but not taken.
next_on_no_match_keeps(self, m) ==
  [self |-> self, ret |-> self.remainder, found |-> m]

\* A plausible slip in next: an empty final remainder is dropped, not
\* yielded.
next_on_no_match_drops_empty(self, m) ==
  [self |-> [self EXCEPT !.remainder = NoneStr],
   ret |-> IF self.remainder.len = 0 THEN NoneStr ELSE self.remainder,
   found |-> m]

\* A plausible slip in next: the remainder is cleared and None returned.
next_on_no_match_forgets(self, m) ==
  [self |-> [self EXCEPT !.remainder = NoneStr], ret |-> NoneStr, found |-> m]

\* next, line 48: find_next answered None; `self.remainder.take()`.
next_on_no_match(self, m) ==
  [self |-> [self EXCEPT !.remainder = NoneStr],
   ret |-> self.remainder, found |-> m]

\* <StrSplit as Iterator>::next on the splitter self over buffer buf.
\* Result: the splitter afterwards, the returned Option<&str> (or Panic),
\* and what find_next answered (NoCall when it was not called).
next(self, buf) ==
  IF self.remainder.tag = "None" THEN next_on_none(self, buf)
  ELSE LET m == find_next(self.delimiter, Str(buf, self.remainder))
       IN  IF m.tag = "Some" THEN next_on_match(self, buf, m)
           ELSE next_on_no_match(self, m)

\* until_char: the first item of a fresh splitter, or the expect() panic.
until_char(s, c) ==
  LET r == next(new(s, CharDelim(c)), s)
  IN  IF r.ret.tag = "Some" THEN r.ret ELSE Panic

\* ---------------------------------------------------------------- state
VARIABLES
  haystack,   \* the bytes of the source text the splitter borrows
  remainder,  \* StrSplit.remainder : Option<&'haystack str>
  delimiter,  \* StrSplit.delimiter : D
  items,      \* the items next has returned so far, in order
  spans,      \* the delimiter occurrences matched so far, as views
  last,       \* what the latest call of next returned (Unset before any)
  found,      \* what find_next answered in the latest call of next
  uc,         \* what until_char(haystack, delimiter) returned (Unset before)
  other       \* a second StrSplit over the same haystack: its remainder and
              \* delimiter, the items it has returned and its latest return

vars ==
  <<haystack, remainder, delimiter, items, spans, last, found, uc, other>>

\* The record of a second splitter sp that has not been called yet.
Fresh(sp) ==
  [remainder |-> sp.remainder, delimiter |-> sp.delimiter,
   items |-> <<>>, last |-> Unset]

\* No second splitter was built.
NoOther ==
  [remainder |-> NoneStr, delimiter |-> StrDelim(<<>>),
   items |-> <<>>, last |-> Unset]

\* Sequences over S of length 0..n.
SeqUpTo(S, n) == UNION {[1..k -> S] : k \in 0..n}

BoundedTexts == {StrLit(cs) : cs \in SeqUpTo(Chars, MaxLen)}
CustomTexts == {StrLit(cs) : cs \in SeqUpTo(Chars, MaxCustomLen)}
BoundedDelims ==
  {CharDelim(c) : c \in Chars}
  \cup {StrDelim(StrLit(cs)) : cs \in SeqUpTo(Chars, MaxDelimLen)}

\* Texts with code points of one, two and three bytes ('a', U+00E8, U+00E9,
\* U+20AC), split on one of the multi-byte ones.
WideChars == {97, 232, 233, 8364}
WideTexts == {StrLit(cs) : cs \in SeqUpTo(WideChars, MaxLen)}
WideDelims == {CharDelim(c) : c \in {w \in WideChars : len_utf8(w) > 1}}

\* The haystacks and delimiters of the tests it_works, tail, until_char_test.
Haystack_it_works == <<97, 32, 98, 32, 99, 32, 100, 32, 101>>
Haystack_tail == <<97, 32, 98, 32, 99, 32, 100, 32>>
Haystack_until_char == <<104, 101, 108, 108, 111, 32, 119, 111, 114, 108, 100>>
TestInputs ==
  { [text |-> Haystack_it_works, delim |-> StrDelim(<<32>>)],
    [text |-> Haystack_tail, delim |-> StrDelim(<<32>>)],
    [text |-> Haystack_until_char, delim |-> CharDelim(111)] }

\* What a caller-supplied find_next may answer for the view text s:
\* absence, or any in-range span start <= end on code-point boundaries.
CustomAnswers(s) ==
  LET B == {i \in 0..Len(s) : is_char_boundary(s, i)}
  IN  {NoneSpan} \cup
      {SomeSpan(p[1], p[2]) : p \in {q \in B \X B : q[1] <= q[2]}}

\* The views a splitter over text t can hold: the suffixes of t that start
\* on a code-point boundary.
Suffixes(t) ==
  {SubSeq(t, i + 1, Len(t)) : i \in {j \in 0..Len(t) : is_char_boundary(t, j)}}

\* The caller-supplied matchers for the views S: one answer per view.
RECURSIVE CustomTables(_)
CustomTables(S) ==
  IF S = {} THEN {<<>>}
  ELSE LET s == CHOOSE x \in S : TRUE
       IN  {(s :> a) @@ f : a \in CustomAnswers(s),
                            f \in CustomTables(S \ {s})}

\* The state after StrSplit::new(text, delim), before any call of next.
Constructed(text, delim) ==
  LET sp == new(text, delim)
  IN  /\ haystack = text
      /\ remainder = sp.remainder
      /\ delimiter = sp.delimiter
      /\ items = <<>>
      /\ spans = <<>>
      /\ last = Unset
      /\ found = NoCall
      /\ uc = Unset
      /\ other = NoOther

Init ==
  \/ \E t \in BoundedTexts, d \in BoundedDelims : Constructed(t, d)
  \/ \E t \in CustomTexts :
       \E f \in CustomTables(Suffixes(t)) : Constructed(t, CustomDelim(f))
  \/ \E in \in TestInputs : Constructed(in.text, in.delim)
  \/ \E t \in WideTexts, d \in WideDelims : Constructed(t, d)

\* One call of next on the splitter.
CallNext ==
  /\ remainder.tag = "None" \/ Len(items) < MaxItems
  /\ last.tag # "Panic"
  /\ LET r == next([remainder |-> remainder, delimiter |-> delimiter],
                  haystack)
     IN  /\ remainder' = r.self.remainder
         /\ delimiter' = r.self.delimiter
         /\ last' = r.ret
         /\ found' = r.found
         /\ items' = IF r.ret.tag = "Some" THEN Append(items, r.ret)
                     ELSE items
         /\ spans' = IF r.ret.tag = "Some" /\ r.found.tag = "Some"
                     THEN Append(spans,
                            SomeStr(remainder.off + r.found.start,
                                    r.found.end - r.found.start))
                     ELSE spans
         /\ UNCHANGED <<haystack, uc, other>>

\* One call of until_char on the same text, with the splitter's char.
CallUntilChar ==
  /\ delimiter.kind = "char"
  /\ uc' = until_char(haystack, delimiter.c)
  /\ UNCHANGED <<haystack, remainder, delimiter, items, spans, last, found,
                 other>>

Next == CallNext \/ CallUntilChar

Spec == Init /\ [][Next]_vars

\* ------------------------------------------------ two splitters, one text
TwoTexts == {StrLit(cs) : cs \in SeqUpTo(Chars, MaxLenTwo)}
TwoDelims ==
  {CharDelim(c) : c \in Chars}
  \cup {StrDelim(StrLit(cs)) : cs \in SeqUpTo(Chars, MaxDelimLenTwo)}

\* The state after StrSplit::new(t, d1) and StrSplit::new(t, d2) on one t.
InitTwo ==
  \E t \in TwoTexts, d1 \in TwoDelims, d2 \in TwoDelims :
    LET sp == new(t, d1)
    IN  /\ haystack = t
        /\ remainder = sp.remainder
        /\ delimiter = sp.delimiter
        /\ items = <<>>
        /\ spans = <<>>
        /\ last = Unset
        /\ found = NoCall
        /\ uc = Unset
        /\ other = Fresh(new(t, d2))

\* A slip that Rust's ownership rules out and that a port could make: the
\* second splitter works on the first one's cursor instead of its own.
CallNextOther_shared_cursor ==
  /\ other.remainder.tag = "None" \/ Len(other.items) < MaxItems
  /\ other.last.tag # "Panic"
  /\ LET r == next([remainder |-> remainder, delimiter |-> other.delimiter],
                  haystack)
     IN  /\ remainder' = r.self.remainder
         /\ other' = [remainder |-> r.self.remainder,
                      delimiter |-> r.self.delimiter,
                      items |-> IF r.ret.tag = "Some"
                                THEN Append(other.items, r.ret)
                                ELSE other.items,
                      last |-> r.ret]
         /\ UNCHANGED <<haystack, delimiter, items, spans, last, found, uc>>

\* One call of next on the second splitter.
CallNextOther ==
  /\ other.remainder.tag = "None" \/ Len(other.items) < MaxItems
  /\ other.last.tag # "Panic"
  /\ LET r == next([remainder |-> other.remainder,
                   delimiter |-> other.delimiter], haystack)
     IN  /\ other' = [remainder |-> r.self.remainder,
                      delimiter |-> r.self.delimiter,
                      items |-> IF r.ret.tag = "Some"
                                THEN Append(other.items, r.ret)
                                ELSE other.items,
                      last |-> r.ret]
         /\ UNCHANGED <<haystack, remainder, delimiter, items, spans, last,
                        found, uc>>

NextTwo == CallNext \/ CallNextOther

SpecTwo == InitTwo /\ [][NextTwo]_vars

\* ------------------------------------------------------------ properties
\* The step is a call of next that returned something new or grew items
\* (a call on an exhausted splitter that again returns None changes nothing).
Called == last' # last \/ items' # items

BuiltIn == delimiter.kind \in {"str", "char"}

\* The bytes a built-in delimiter stands for.
DelimBytes(d) == IF d.kind = "char" THEN encode_utf8(d.c) ELSE d.bytes

\* d occurs in t at byte offset i.
OccursAt(d, t, i) ==
  /\ i + Len(d) <= Len(t)
  /\ SubSeq(t, i + 1, i + Len(d)) = d

Occurs(d, t) == \E i \in 0..Len(t) : OccursAt(d, t, i)

StartsWith(t, d) == OccursAt(d, t, 0)

EndsWith(t, d) == Len(d) <= Len(t) /\ OccursAt(d, t, Len(t) - Len(d))

\* d has a proper non-empty prefix that is also its suffix, so two
\* occurrences of d can overlap.
SelfOverlapping(d) ==
  \E k \in 1..(Len(d) - 1) : SubSeq(d, 1, k) = SubSeq(d, Len(d) - k + 1, Len(d))

\* The texts of the items yielded so far.
ItemTexts == [k \in 1..Len(items) |-> Str(haystack, items[k])]

\* q is a prefix of p.
IsPrefix(q, p) == Len(q) <= Len(p) /\ SubSeq(p, 1, Len(q)) = q

\* C1: once next has returned None, or remainder is None, the state stays
\* Done: remainder stays None, no item is added, and next returns None from
\* then on.
C1_DoneIsOneWay ==
  /\ [][remainder.tag = "None"
          => /\ remainder'.tag = "None"
             /\ items' = items
             /\ last' \in {last, NoneStr}]_vars
  /\ [][last.tag = "None" => last'.tag = "None" /\ items' = items]_vars
  /\ [](last.tag = "None" => remainder.tag = "None")

\* A call after the end: the splitter is Done, has yielded several items and
\* the latest call returned None.
C1_Witness ==
  /\ remainder.tag = "None"
  /\ last.tag = "None"
  /\ Len(items) >= 2

\* C2: with a built-in matcher (any &str, any char) each call of next in
\* state Remaining strictly shortens the remaining view or moves to Done.
C2_StepShrinksOrEnds ==
  [][(Called /\ remainder.tag = "Some" /\ BuiltIn)
       => \/ remainder'.tag = "None"
          \/ /\ remainder'.tag = "Some"
             /\ remainder'.len < remainder.len]_vars

\* C3: when find_next reports (start, end) in the remaining view, next
\* yields view[0, start), the new remaining view is view[end, len) and the
\* state stays Remaining; "a b c d e" split on " " yields a, b, c, d, e in
\* that order and then ends.
C3_MatchStep ==
  /\ [][(Called /\ found'.tag = "Some")
          => LET view == Str(haystack, remainder)
             IN  /\ remainder.tag = "Some"
                 /\ last'.tag = "Some"
                 /\ last'.off = remainder.off
                 /\ Str(haystack, last') = SubSeq(view, 1, found'.start)
                 /\ items' = Append(items, last')
                 /\ remainder'.tag = "Some"
                 /\ remainder'.off = remainder.off + found'.end
                 /\ Str(haystack, remainder')
                      = SubSeq(view, found'.end + 1, Len(view))]_vars
  /\ []((haystack = Haystack_it_works /\ delimiter = StrDelim(<<32>>))
          => /\ IsPrefix(ItemTexts, <<<<97>>, <<98>>, <<99>>, <<100>>, <<101>>>>)
             /\ remainder.tag = "None" => Len(items) = 5)

\* The test it_works has run to its end.
C3_Witness ==
  /\ haystack = Haystack_it_works
  /\ remainder.tag = "None"
  /\ Len(items) = 5
  /\ found.tag = "None"

\* C4: when find_next reports no delimiter, next yields the whole remaining
\* view and the state becomes Done; a text in which the built-in delimiter
\* does not occur yields exactly one item, the text itself.
C4_NoMatchStep ==
  /\ [][(Called /\ remainder.tag = "Some" /\ found'.tag = "None")
          => /\ last' = remainder
             /\ items' = Append(items, remainder)
             /\ remainder'.tag = "None"]_vars
  /\ []((BuiltIn /\ ~Occurs(DelimBytes(delimiter), haystack))
          => IF remainder.tag = "Some"
             THEN items = <<>>
             ELSE items = <<SomeStr(0, Len(haystack))>>)

\* A non-empty text without the delimiter has been yielded whole.
C4_Witness ==
  /\ BuiltIn
  /\ ~Occurs(DelimBytes(delimiter), haystack)
  /\ Len(haystack) >= 2
  /\ remainder.tag = "None"
  /\ items = <<SomeStr(0, Len(haystack))>>

\* C5: the empty text yields exactly one item, the empty string, and then
\* the end, for every non-empty literal and every char delimiter.
C5_EmptyText ==
  (haystack = <<>> /\ BuiltIn /\ DelimBytes(delimiter) # <<>>)
    => IF remainder.tag = "Some"
       THEN items = <<>> /\ last = Unset
       ELSE items = <<SomeStr(0, 0)>> /\ last \in {SomeStr(0, 0), NoneStr}

\* The empty text has been split on a literal and next has returned None.
C5_Witness ==
  /\ haystack = <<>>
  /\ delimiter.kind = "str"
  /\ delimiter.bytes # <<>>
  /\ items = <<SomeStr(0, 0)>>
  /\ last = NoneStr

\* C6 as stated: for every text that ends with the (built-in) delimiter,
\* the last item yielded before the end is the empty string.
C6_Original ==
  (BuiltIn /\ EndsWith(haystack, DelimBytes(delimiter))
     /\ remainder.tag = "None")
    => /\ items # <<>>
       /\ items[Len(items)].len = 0

\* C6 as amended: for every text that ends with the delimiter, where the
\* delimiter is a char or a non-empty literal whose occurrences cannot
\* overlap, the last item yielded before the end is the empty string.
C6_TrailingEmptyItem ==
  (/\ BuiltIn
   /\ DelimBytes(delimiter) # <<>>
   /\ ~SelfOverlapping(DelimBytes(delimiter))
   /\ EndsWith(haystack, DelimBytes(delimiter))
   /\ remainder.tag = "None")
    => /\ items # <<>>
       /\ items[Len(items)].len = 0
       /\ items[Len(items)].off = Len(haystack)
       /\ (haystack = Haystack_tail /\ delimiter = StrDelim(<<32>>))
            => ItemTexts = <<<<97>>, <<98>>, <<99>>, <<100>>, <<>>>>

\* The test tail has run to its end.
C6_Witness ==
  /\ haystack = Haystack_tail
  /\ delimiter = StrDelim(<<32>>)
  /\ remainder.tag = "None"
  /\ Len(items) = 5

\* C7: when the built-in delimiter occurs at offset 0 of the remaining view,
\* next yields an empty item and steps over that occurrence; a text that
\* starts with the delimiter has an empty first item.
C7_EmptyItemAtDelimiter ==
  /\ [][(/\ Called
         /\ remainder.tag = "Some"
         /\ BuiltIn
         /\ StartsWith(Str(haystack, remainder), DelimBytes(delimiter)))
          => /\ last' = SomeStr(remainder.off, 0)
             /\ items' = Append(items, last')
             /\ remainder'
                  = SomeStr(remainder.off + Len(DelimBytes(delimiter)),
                            remainder.len - Len(DelimBytes(delimiter)))]_vars
  /\ []((BuiltIn /\ StartsWith(haystack, DelimBytes(delimiter))
           /\ items # <<>>)
          => items[1] = SomeStr(0, 0))

\* A leading delimiter followed at once by another: two empty items.
C7_Witness ==
  /\ BuiltIn
  /\ DelimBytes(delimiter) # <<>>
  /\ Len(items) >= 2
  /\ items[1].len = 0
  /\ items[2].len = 0
  /\ Len(spans) >= 2

\* items[1] \o spans[1] \o items[2] \o ... : the items with the matched
\* delimiter texts put back between them.
RECURSIVE Rebuild(_, _, _)
Rebuild(buf, its, sps) ==
  IF its = <<>> THEN <<>>
  ELSE Str(buf, Head(its))
         \o (IF sps = <<>> THEN <<>> ELSE Str(buf, Head(sps)))
         \o Rebuild(buf, Tail(its), IF sps = <<>> THEN <<>> ELSE Tail(sps))

\* C8: round trip: once the splitter is Done, the yielded items with the
\* matched delimiter texts re-inserted between consecutive items are the
\* original text, for every matcher (built-in or caller-supplied).
C8_RoundTrip ==
  remainder.tag = "None"
    => /\ Len(items) = Len(spans) + 1
       /\ Rebuild(haystack, items, spans) = haystack

\* A caller-supplied matcher has matched twice and the splitter is Done.
C8_Witness ==
  /\ delimiter.kind = "custom"
  /\ remainder.tag = "None"
  /\ Len(spans) >= 2
  /\ \E k \in 1..Len(spans) : spans[k].len > 0

\* C9: the first call of next on a fresh splitter returns an item, for every
\* text and matcher, and until_char never reaches its expect() failure.
C9_FirstCallYields ==
  /\ last.tag # "Unset" => (items # <<>> /\ last.tag # "Panic")
  /\ uc.tag # "Panic"

\* The empty text: first call made, until_char called.
C9_Witness ==
  /\ haystack = <<>>
  /\ Len(items) = 1
  /\ uc.tag = "Some"

\* The offset of the first occurrence of d in t.
FirstOccurrence(d, t) ==
  CHOOSE i \in 0..Len(t) :
    OccursAt(d, t, i) /\ \A j \in 0..(i - 1) : ~OccursAt(d, t, j)

\* C10: until_char(s, c) is the prefix of s before the first occurrence of
\* c, all of s when c does not occur, and is the first item of a splitter
\* built from s and c; until_char("hello world", 'o') is "hell".
C10_UntilChar ==
  uc.tag # "Unset"
    => LET d == encode_utf8(delimiter.c)
       IN  /\ uc.tag = "Some"
           /\ uc.off = 0
           /\ uc.len = IF Occurs(d, haystack)
                       THEN FirstOccurrence(d, haystack)
                       ELSE Len(haystack)
           /\ items # <<>> => uc = items[1]
           /\ (haystack = Haystack_until_char /\ delimiter.c = 111)
                => Str(haystack, uc) = <<104, 101, 108, 108>>

\* until_char_test has run, and the splitter over the same text has yielded.
C10_Witness ==
  /\ haystack = Haystack_until_char
  /\ uc.tag = "Some"
  /\ Str(haystack, uc) = <<104, 101, 108, 108>>
  /\ items # <<>>

\* C11: for a char delimiter of more than one byte, find_next answers the
\* byte offset where the first such code point starts and an end that is
\* start plus its encoded length; no slice fails, and every boundary of
\* every item and of the remaining view is a code-point boundary of the text.
C11_MultiByteChar ==
  /\ [][(/\ Called
         /\ remainder.tag = "Some"
         /\ delimiter.kind = "char"
         /\ len_utf8(delimiter.c) > 1)
          => LET view == Str(haystack, remainder)
                 d == encode_utf8(delimiter.c)
             IN  /\ last'.tag = "Some"
                 /\ IF Occurs(d, view)
                    THEN /\ found'.tag = "Some"
                         /\ found'.start = FirstOccurrence(d, view)
                         /\ found'.end = found'.start + Len(d)
                         /\ is_char_boundary(view, found'.start)
                         /\ is_char_boundary(view, found'.end)
                    ELSE found'.tag = "None"]_vars
  /\ []((delimiter.kind = "char" /\ len_utf8(delimiter.c) > 1)
          => /\ last.tag # "Panic"
             /\ \A k \in 1..Len(items) :
                  /\ is_char_boundary(haystack, items[k].off)
                  /\ is_char_boundary(haystack, items[k].off + items[k].len)
             /\ remainder.tag = "Some"
                  => /\ is_char_boundary(haystack, remainder.off)
                     /\ remainder.off + remainder.len = Len(haystack))

\* A text with one-, two- and three-byte code points has been split to its
\* end on the three-byte U+20AC, which it holds twice.
C11_Witness ==
  /\ delimiter = CharDelim(8364)
  /\ remainder.tag = "None"
  /\ Len(spans) = 2
  /\ \E k \in 1..Len(haystack) : haystack[k] = 195
  /\ \E k \in 1..Len(items) : items[k].len > 0

\* C12: for a non-empty literal delimiter, find_next answers
\* (offset, offset + byte length of the delimiter) with offset the smallest
\* byte offset where the delimiter occurs in the view, and answers absence
\* exactly when it does not occur, as in every view shorter than it.
C12_LiteralMatcher ==
  [][(/\ Called
      /\ remainder.tag = "Some"
      /\ delimiter.kind = "str"
      /\ delimiter.bytes # <<>>)
       => LET view == Str(haystack, remainder)
              d == delimiter.bytes
          IN  /\ IF Occurs(d, view)
                 THEN found' = SomeSpan(FirstOccurrence(d, view),
                                        FirstOccurrence(d, view) + Len(d))
                 ELSE found' = NoneSpan
              /\ Len(view) < Len(d) => found' = NoneSpan]_vars

\* A literal of several bytes was matched past offset 0, and then not found
\* in a non-empty view shorter than itself.
C12_Witness ==
  /\ delimiter.kind = "str"
  /\ Len(spans) >= 1
  /\ spans[1].off > 0
  /\ spans[1].len = Len(delimiter.bytes)
  /\ found = NoneSpan
  /\ last.tag = "Some"
  /\ last.len > 0
  /\ last.len < Len(delimiter.bytes)

\* The first n items of a splitter run alone from self over buf (fewer when
\* it ends sooner).
RECURSIVE RunAlone(_, _, _)
RunAlone(self, buf, n) ==
  IF n = 0 THEN <<>>
  ELSE LET r == next(self, buf)
       IN  IF r.ret.tag = "Some"
           THEN <<r.ret>> \o RunAlone(r.self, buf, n - 1)
           ELSE <<>>

C14_ForwardViews ==
  /\ [](BuiltIn
          => /\ remainder.tag = "Some"
                  => /\ 0 <= remainder.off
                     /\ remainder.off + remainder.len = Len(haystack)
             /\ \A k \in 1..Len(items) :
                  /\ 0 <= items[k].off
                  /\ 0 <= items[k].len
                  /\ items[k].off + items[k].len <= Len(haystack)
             /\ \A k \in 1..Len(spans) :
                  /\ items[k].off + items[k].len <= spans[k].off
                  /\ k < Len(items)
                       => spans[k].off + spans[k].len <= items[k + 1].off
             /\ \A k \in 1..(Len(items) - 1) :
                  /\ items[k].off + items[k].len <= items[k + 1].off
                  /\ items[k].off < items[k + 1].off)
  /\ [][(Called /\ BuiltIn)
          => /\ haystack' = haystack
             /\ delimiter' = delimiter
             /\ (remainder.tag = "Some" /\ remainder'.tag = "Some")
                  => /\ remainder'.off >= remainder.off
                     /\ remainder'.off + remainder'.len
                          = remainder.off + remainder.len]_vars
====
